---- MODULE Spec2Model ----
(***************************************************************************)
(* Model of the MaxText lock-file build driver (build_maxtext_lock_cli.py),*)
(* of the helpers it calls in utils.py and of the script                   *)
(* lock_to_lower_bound_project.py that the Builder runs.                   *)
(*                                                                         *)
(* The program is sequential.  Its state is the command line, the position *)
(* of main, the files of the working directory and of the output tree, and *)
(* the process exit code.  Everything outside the program (the GitHub API, *)
(* the raw-content host, the uv resolver) answers nondeterministically.    *)
(*                                                                         *)
(* Text is modelled as a sequence of one-character strings wherever the    *)
(* code looks inside it (str.replace, re.match); Join turns such a         *)
(* sequence into the string an f-string would build.                       *)
(***************************************************************************)
EXTENDS Naturals, Sequences, FiniteSets, TLC

VARIABLES
  argv,       \* the command line [ok, maxtext_github_commit, jax_github_commit_or_version, python_versions];
              \* when a single function is called: [function, its arguments]
  pc,         \* position of main
  vi,         \* index of the current python_version in args.python_versions
  mi,         \* index of the current machine_type in ('tpu', 'gpu')
  fs,         \* files: path -> content (working directory and output tree)
  dirs,       \* directories created under the working directory
  log,        \* history: the calls main has made, in order, with their arguments
  last_build, \* history: steps and return value of the latest build_seed_env call
  faults,     \* history: kinds of failure the environment has produced so far
  injected,   \* history: how many failures the run has survived so far
  exit_code   \* <<>> while the process runs, then <<its exit status>>

vars == <<argv, pc, vi, mi, fs, dirs, log, last_build, faults, injected, exit_code>>

----------------------------------------------------------------------------
(* Bounds of the model *)

\* longest --python-versions list explored
MaxVersions == 2

\* longest text explored exhaustively as the argument of a single function
MaxTextLen == 3

\* most failures the environment produces in one run without ending it
\* (a resolver step that exits non-zero, a host manifest that cannot be
\* patched); failures that end the run are not counted
MaxFaults == 2

----------------------------------------------------------------------------
(* Text helpers *)

RECURSIVE Join(_)
Join(s) == IF s = <<>> THEN "" ELSE Head(s) \o Join(Tail(s))

\* str.replace(old, new) for one-character old and new
str_replace(s, old, new) == [i \in 1..Len(s) |-> IF s[i] = old THEN new ELSE s[i]]

Last(s) == s[Len(s)]

Range(s) == {s[i] : i \in 1..Len(s)}

\* os.path.join of path segments
RECURSIVE path_join(_)
path_join(segs) ==
  IF Len(segs) = 1 THEN Head(segs) ELSE Head(segs) \o "/" \o path_join(Tail(segs))

\* "sub in s"
contains(s, sub) ==
  \E i \in 1..(Len(s) + 1 - Len(sub)) : SubSeq(s, i, i + Len(sub) - 1) = sub

\* str.replace(old, new): every occurrence, left to right, not overlapping
RECURSIVE replace(_, _, _)
replace(s, old, new) ==
  LET found == {i \in 1..(Len(s) + 1 - Len(old)) : SubSeq(s, i, i + Len(old) - 1) = old}
  IN IF found = {} THEN s
     ELSE LET k == CHOOSE i \in found : \A j \in found : i <= j
          IN SubSeq(s, 1, k - 1) \o new \o replace(SubSeq(s, k + Len(old), Len(s)), old, new)

HexDigits ==
  {"0","1","2","3","4","5","6","7","8","9",
   "a","b","c","d","e","f","A","B","C","D","E","F"}

\* [0-9a-fA-F]{40} over the whole of s
IsHex40(s) == Len(s) = 40 /\ \A i \in 1..Len(s) : s[i] \in HexDigits

\* re.match(r"^[0-9a-fA-F]{40}$", s): $ also matches before a final newline
IsCommitShaShape(s) ==
  \/ IsHex40(s)
  \/ (Len(s) = 41 /\ s[41] = "\n" /\ IsHex40(SubSeq(s, 1, 40)))

----------------------------------------------------------------------------
(* Configuration constants of build_maxtext_lock_cli.py *)

GITHUB_ORG == "AI-Hypercomputer"
GITHUB_REPO == "maxtext"
REQUIREMENTS_FILE_NAME == "requirements.txt"
V3_10 == <<"3", ".", "1", "0">>
V3_11 == <<"3", ".", "1", "1">>
V3_12 == <<"3", ".", "1", "2">>
SUPPORTED_PYTHON_VERSIONS == {V3_11, V3_12}
LATEST_JAX_VERSION == <<"j","a","x","-","v","0",".","6",".","2">>
JAX_PATCH_FILE == "jax_requirements_lock_3_10.patch"
CONSTRAINTS_GPU_ONLY == "constraints_gpu_only.txt"
CONSTRAINTS_TPU_ONLY == "constraints_tpu_only.txt"
MACHINE_TYPES == <<"tpu", "gpu">>

\* prepare_jax_seed.py
ORG_REPO == "jax-ml/jax"

----------------------------------------------------------------------------
(* Files.  A content is a sequence of lines. *)

exists(f, path) == path \in DOMAIN f

fs_remove(f, path) == [p \in DOMAIN f \ {path} |-> f[p]]

fs_write(f, path, content) ==
  [p \in DOMAIN f \cup {path} |-> IF p = path THEN content ELSE f[p]]

\* a cleanup that gives up at the first listed file that is not there
RECURSIVE _cleanup_files_until_missing(_, _)
_cleanup_files_until_missing(f, files) ==
  IF files = <<>> \/ ~exists(f, Head(files)) THEN f
  ELSE _cleanup_files_until_missing(fs_remove(f, Head(files)), Tail(files))

\* _cleanup_files: os.remove every listed file that os.path.exists, in list order
RECURSIVE _cleanup_files(_, _)
_cleanup_files(f, files_to_clean_per_iteration) ==
  IF files_to_clean_per_iteration = <<>> THEN f
  ELSE LET f_name == Head(files_to_clean_per_iteration)
           g == IF exists(f, f_name) THEN fs_remove(f, f_name) ELSE f
       IN _cleanup_files(g, Tail(files_to_clean_per_iteration))

\* the os.remove calls _cleanup_files makes, in order
RECURSIVE os_remove_calls(_, _)
os_remove_calls(f, files_to_clean_per_iteration) ==
  IF files_to_clean_per_iteration = <<>> THEN <<>>
  ELSE LET f_name == Head(files_to_clean_per_iteration)
       IN IF exists(f, f_name)
          THEN <<f_name>> \o os_remove_calls(fs_remove(f, f_name),
                                             Tail(files_to_clean_per_iteration))
          ELSE os_remove_calls(f, Tail(files_to_clean_per_iteration))

----------------------------------------------------------------------------
(* utils.py: remote access.  An exception is "none", "Exception" (any      *)
(* subclass of Exception) or "SystemExit" (raised by sys.exit, which is    *)
(* not a subclass of Exception).                                           *)

\* What the raw-content host does with a download: served, or any of the
\* HTTP / network / naming failures of download_remote_file.
DownloadOutcomes == {"ok", "http_error"}

\* What the GitHub REST API answers: an object carrying the sha asked for,
\* an object without it (such as {"message": "Not Found"}), the rate-limit
\* message, a body that is not JSON, or no answer at all (network error).
ApiResponses == {"sha", "no_sha", "rate_limit", "bad_json", "net_error"}

\* a URL is kept as its path segments; os.path.basename is the last one
basename(url) == Last(url)

\* what the host serves: one line of text
REMOTE_BODY == <<<<"r", "e", "m", "o", "t", "e", " ", "b", "o", "d", "y">>>>

\* download_remote_file: every failure ends in sys.exit(1); success writes the
\* body to the working directory under the URL's last path segment
download_remote_file(f, file_url, outcome) ==
  IF outcome = "ok"
  THEN [exc |-> "none", fs |-> fs_write(f, basename(file_url), REMOTE_BODY)]
  ELSE [exc |-> "SystemExit", fs |-> f]

\* _check_github_rest_api_message: sys.exit(1) on a body that is not JSON and
\* on the rate-limit message; returns otherwise
_check_github_rest_api_message(response) ==
  IF response \in {"bad_json", "rate_limit"} THEN "SystemExit" ELSE "none"

\* is_valid_commit: [ret, exc, net]; net tells whether the API was called
is_valid_commit(input_ref, org_repo, response) ==
  IF IsCommitShaShape(input_ref)
  THEN IF response = "net_error"
       THEN [ret |-> FALSE, exc |-> "none", net |-> TRUE]
       ELSE IF _check_github_rest_api_message(response) = "SystemExit"
       THEN [ret |-> FALSE, exc |-> "SystemExit", net |-> TRUE]
       ELSE [ret |-> response = "sha", exc |-> "none", net |-> TRUE]
  ELSE [ret |-> FALSE, exc |-> "none", net |-> FALSE]

\* the sha the tags-ref endpoint names for a tag
TAG_SHA == [i \in 1..40 |-> IF i % 2 = 0 THEN "a" ELSE "1"]

\* a resolver that takes the input for a commit hash without asking
get_commit_hash_for_tag_unvalidated(tag_name, org_repo, tag_response, commit_response) ==
  [hash |-> IF tag_response = "sha" THEN TAG_SHA ELSE tag_name, exc |-> "none",
   validated |-> FALSE]

\* get_commit_hash_for_tag: [hash, exc, validated]; tag_response answers the
\* tags-ref call, commit_response the commits call of is_valid_commit
get_commit_hash_for_tag(tag_name, org_repo, tag_response, commit_response) ==
  LET checked == IF tag_response = "net_error" THEN "none"
                 ELSE _check_github_rest_api_message(tag_response)
      commit_hash == IF tag_response = "sha" THEN TAG_SHA ELSE <<>>
      v == is_valid_commit(tag_name, org_repo, commit_response)
  IN IF checked = "SystemExit"
     THEN [hash |-> <<>>, exc |-> "SystemExit", validated |-> FALSE]
     ELSE IF commit_hash # <<>>
     THEN [hash |-> commit_hash, exc |-> "none", validated |-> FALSE]
     ELSE IF v.exc = "SystemExit" \/ ~v.ret
     THEN [hash |-> <<>>, exc |-> "SystemExit", validated |-> TRUE]
     ELSE [hash |-> tag_name, exc |-> "none", validated |-> TRUE]

\* fix_maxtext_requirements: never raises.  A missing file is reported and
\* left alone; an error while rewriting in place (a manifest that cannot be
\* decoded) is caught and printed, and leaves the file empty.
FixOutcomes == {"ok", "error"}

\* lines 415-420: the mapping, in the order the dict gives its items
REPLACEMENTS ==
  <<<<<<"p", "r", "o", "t", "o", "b", "u", "f", "=", "=", "3", ".", "2", "0", ".", "3">>,
      <<"p", "r", "o", "t", "o", "b", "u", "f">>>>,
    <<<<"s", "e", "n", "t", "e", "n", "c", "e", "p", "i", "e", "c", "e", "=", "=", "0", ".", "1", ".", "9", "7">>,
      <<"s", "e", "n", "t", "e", "n", "c", "e", "p", "i", "e", "c", "e", ">", "=", "0", ".", "1", ".", "9", "7">>>>,
    <<<<"/", "J", "e", "t", "S", "t", "r", "e", "a", "m", ".", "g", "i", "t">>,
      <<"/", "J", "e", "t", "S", "t", "r", "e", "a", "m", ".", "g", "i", "t", "@", "2", "6", "1", "f", "2", "5", "0", "0", "7", "e", "4", "d", "1", "2", "b", "b", "5", "7", "c", "f", "8", "d", "5", "d", "6", "1", "e", "2", "9", "1", "b", "a", "8", "f", "1", "8", "4", "3", "0", "f">>>>,
    <<<<"/", "l", "o", "g", "g", "i", "n", "g", ".", "g", "i", "t">>,
      <<"/", "l", "o", "g", "g", "i", "n", "g", ".", "g", "i", "t", "@", "4", "4", "b", "4", "8", "1", "0", "e", "6", "5", "e", "8", "c", "0", "a", "7", "d", "9", "e", "4", "e", "2", "0", "7", "c", "6", "0", "e", "5", "1", "d", "9", "4", "5", "8", "a", "3", "f", "b", "8">>>>>>

\* lines 426-427, from the k-th pair on: new_line.replace(old_str, new_str)
RECURSIVE apply_replacements(_, _)
apply_replacements(new_line, k) ==
  IF k > Len(REPLACEMENTS) THEN new_line
  ELSE apply_replacements(replace(new_line, REPLACEMENTS[k][1], REPLACEMENTS[k][2]), k + 1)

\* a rewrite that knows the first pair of the mapping only
new_line_unpinning_protobuf(line) == replace(line, REPLACEMENTS[1][1], REPLACEMENTS[1][2])

\* lines 425-427: what is printed for a line read
new_line_of(line) == apply_replacements(line, 1)

\* the lines the text-mode reader of fileinput yields for one line of the
\* file: a carriage return ends a line as well, alone or before the newline
RECURSIVE universal_newlines(_)
universal_newlines(line) ==
  IF "\r" \notin Range(line) THEN <<line>>
  ELSE LET k == CHOOSE i \in 1..Len(line) :
                  line[i] = "\r" /\ \A j \in 1..(i - 1) : line[j] # "\r"
       IN IF k = Len(line) THEN <<SubSeq(line, 1, k - 1)>>
          ELSE <<SubSeq(line, 1, k - 1)>> \o universal_newlines(SubSeq(line, k + 1, Len(line)))

\* lines 423-428: every line read is printed back, rewritten
RECURSIVE rewrite_in_place(_)
rewrite_in_place(content) ==
  IF content = <<>> THEN <<>>
  ELSE LET read == universal_newlines(Head(content))
       IN [i \in 1..Len(read) |-> new_line_of(read[i])] \o rewrite_in_place(Tail(content))

fix_maxtext_requirements(f, file_path, outcome) ==
  IF ~exists(f, file_path) THEN f
  ELSE IF outcome = "ok" THEN fs_write(f, file_path, rewrite_in_place(f[file_path]))
  ELSE fs_write(f, file_path, <<>>)

----------------------------------------------------------------------------
(* utils.py: generate_pyproject_toml *)

Digits == {"0","1","2","3","4","5","6","7","8","9"}

\* [0-9]+\.[0-9]+ over the whole of s
IsXdotY(s) ==
  \E k \in 2..(Len(s) - 1) :
    /\ s[k] = "."
    /\ \A i \in 1..Len(s) : i # k => s[i] \in Digits

\* a pattern that only asks for a dot
MatchesAnyDotted(s) == "." \in Range(s)

\* re.match(r"^[0-9]+\.[0-9]+$", s): $ also matches before a final newline
MatchesVersionPattern(s) ==
  \/ IsXdotY(s)
  \/ (Len(s) > 0 /\ Last(s) = "\n" /\ IsXdotY(SubSeq(s, 1, Len(s) - 1)))

PYPROJECT_TOML == "pyproject.toml"

pyproject_content(python_version) ==
  << "[project]",
     "name = \"test_env_1\"",
     "version = \"0.1.0\"",
     "requires-python = \"==" \o Join(python_version) \o ".*\"",
     "dependencies = [",
     "]" >>

\* generate_pyproject_toml(python_version) with the default output file:
\* [ret, fs]; returns 1 and writes nothing unless the version is X.Y
generate_pyproject_toml(f, python_version) ==
  IF python_version = <<>> THEN [ret |-> 1, fs |-> f]
  ELSE IF ~MatchesVersionPattern(python_version) THEN [ret |-> 1, fs |-> f]
  ELSE [ret |-> 0, fs |-> fs_write(f, PYPROJECT_TOML, pyproject_content(python_version))]

----------------------------------------------------------------------------
(* utils.py: build_seed_env and _run_command *)

UV_LOCK == "uv.lock"

\* subprocess.run without check=True: a non-zero exit raises nothing
_run_command_unchecked(returncode) == "none"

\* _run_command with check=True: subprocess.run raises CalledProcessError
\* exactly when the command exits non-zero
_run_command(returncode) ==
  IF returncode # 0 THEN "CalledProcessError" ELSE "none"

\* the package names of a constraints file: its stripped, non-blank lines
deps_to_remove(f, constraints_file) ==
  IF constraints_file = "" \/ ~exists(f, constraints_file) THEN <<>>
  ELSE SelectSeq(f[constraints_file], LAMBDA line : line # "")

uv_add(requirements, no_build) ==
  <<"uv", "add", "--managed-python">> \o no_build \o
  <<"--no-sync", "--resolution=highest", "-r", requirements>>

uv_remove(dep) ==
  <<"uv", "remove", "--managed-python", "--no-sync", "--resolution=highest", dep>>

uv_export(resolution, output_file) ==
  <<"uv", "export", "--managed-python", "--locked", "--no-hashes", "--no-annotate",
    "--resolution=" \o resolution, "--output-file", output_file>>

lock_to_lower_bound(output_file) ==
  <<"python", "lock_to_lower_bound_project.py", output_file, PYPROJECT_TOML>>

uv_lock_lowest == <<"uv", "lock", "--managed-python", "--resolution=lowest">>

remove_uv_lock == <<"os.remove", UV_LOCK>>

\* the steps of build_seed_env in program order, given the files it finds
build_steps(f, seed_file, project_requirements_file, output_file, constraints_file) ==
  <<remove_uv_lock, uv_add(seed_file, <<"--no-build">>)>>
  \o [i \in 1..Len(deps_to_remove(f, constraints_file)) |->
        uv_remove(deps_to_remove(f, constraints_file)[i])]
  \o <<uv_add(project_requirements_file, <<>>),
       uv_export("highest", output_file),
       lock_to_lower_bound(output_file),
       remove_uv_lock,
       uv_lock_lowest,
       uv_export("lowest", output_file)>>

\* what a step that succeeds does to the files: uv add / remove / lock
\* (re)write uv.lock, uv export writes the output file at the resolution
\* asked for, os.remove deletes uv.lock if it is there
step_effect(f, cmd) ==
  IF cmd = remove_uv_lock
  THEN (IF exists(f, UV_LOCK) THEN fs_remove(f, UV_LOCK) ELSE f)
  ELSE IF cmd[2] \in {"add", "remove", "lock"} THEN fs_write(f, UV_LOCK, <<"lock">>)
  ELSE IF cmd[2] = "export" THEN fs_write(f, Last(cmd), <<cmd[7]>>)
  ELSE f

\* whether the i-th step is a subprocess (os.remove is not)
is_command(cmd) == cmd # remove_uv_lock

\* the exit code of the n-th subprocess when the fail_at-th one fails
returncode_of(n, fail_at) == IF n = fail_at THEN 1 ELSE 0

\* runs steps[i..]: n subprocesses have run so far; stops at the first
\* CalledProcessError, which build_seed_env catches to return 1
RECURSIVE run_steps(_, _, _, _, _, _)
run_steps(f, steps, i, n, fail_at, trace) ==
  IF i > Len(steps) THEN [fs |-> f, trace |-> trace, ret |-> 0]
  ELSE LET cmd == steps[i]
           rc == IF is_command(cmd) THEN returncode_of(n + 1, fail_at) ELSE 0
           m == IF is_command(cmd) THEN n + 1 ELSE n
           t == Append(trace, [cmd |-> cmd, rc |-> rc])
       IN IF is_command(cmd) /\ _run_command(rc) = "CalledProcessError"
          THEN [fs |-> f, trace |-> t, ret |-> 1]
          ELSE run_steps(step_effect(f, cmd), steps, i + 1, m, fail_at, t)

\* build_seed_env: [fs, trace, ret]; never raises
build_seed_env(f, seed_file, project_requirements_file, output_file, constraints_file, fail_at) ==
  run_steps(f,
            build_steps(f, seed_file, project_requirements_file, output_file,
                        constraints_file),
            1, 0, fail_at, <<>>)

----------------------------------------------------------------------------
(* lock_to_lower_bound_project.py.  Lines are sequences of characters.     *)

Whitespace == {" ", "\t", "\n", "\r"}

RECURSIVE lstrip(_)
lstrip(s) == IF s # <<>> /\ Head(s) \in Whitespace THEN lstrip(Tail(s)) ELSE s

RECURSIVE rstrip(_)
rstrip(s) ==
  IF s # <<>> /\ s[Len(s)] \in Whitespace THEN rstrip(SubSeq(s, 1, Len(s) - 1)) ELSE s

\* str.strip()
strip(s) == lstrip(rstrip(s))

\* lines 18-24: the stripped lines without '#' that hold '==' or '@'
read_requirements_lock_file(f, filepath) ==
  LET kept == SelectSeq(f[filepath],
                        LAMBDA line : /\ ~contains(line, <<"#">>)
                                      /\ (contains(line, <<"=", "=">>) \/ contains(line, <<"@">>)))
  IN [i \in 1..Len(kept) |-> strip(kept[i])]

\* a conversion that puts '>' before every '='
loosen_every_equals(pinned_deps) ==
  [i \in 1..Len(pinned_deps) |-> replace(pinned_deps[i], <<"=">>, <<">", "=">>)]

\* a conversion that leaves the pins as they are
keep_pinned_deps(pinned_deps) == pinned_deps

\* lines 26-34
convert_deps_to_lower_bound(pinned_deps) ==
  [i \in 1..Len(pinned_deps) |->
     IF contains(pinned_deps[i], <<"=", "=">>)
     THEN replace(pinned_deps[i], <<"=", "=">>, <<">", "=">>)
     ELSE pinned_deps[i]]

DEPENDENCIES == <<"d", "e", "p", "e", "n", "d", "e", "n", "c", "i", "e", "s">>

\* lines 36-37: the text of the new array, as lines; the join of no
\* dependencies is the empty string, which leaves one line holding ""
lower_boud_deps_to_string(lower_bound_deps) ==
  LET n == Len(lower_bound_deps)
      indent == <<" ", " ", " ", " ", "\"">>
  IN <<DEPENDENCIES \o <<" ", "=", " ", "[">>>>
     \o (IF n = 0 THEN <<indent \o <<"\"">>>>
         ELSE [i \in 1..n |-> indent \o lower_bound_deps[i]
                                \o (IF i < n THEN <<"\"", ",">> ELSE <<"\"">>)])
     \o << <<"]">> >>

\* where the first '[' of a line is, 0 when it has none
first_bracket(line) ==
  IF "[" \notin Range(line) THEN 0
  ELSE CHOOSE k \in 1..Len(line) : line[k] = "[" /\ \A j \in 1..(k - 1) : line[j] # "["

\* ^dependencies\s*=\s*\[ at the start of a line
opens_array(line) ==
  /\ Len(line) > Len(DEPENDENCIES)
  /\ SubSeq(line, 1, Len(DEPENDENCIES)) = DEPENDENCIES
  /\ first_bracket(line) # 0
  /\ SelectSeq(SubSeq(line, Len(DEPENDENCIES) + 1, first_bracket(line)),
               LAMBDA c : c \notin Whitespace) = <<"=", "[">>

\* the array opens at the end of the line
is_array_head(line) == opens_array(line) /\ first_bracket(line) = Len(line)

\* the array opens and closes at once: dependencies = []
is_empty_array(line) ==
  /\ opens_array(line)
  /\ first_bracket(line) < Len(line)
  /\ line[first_bracket(line) + 1] = "]"

\* \s*.*,\s* : a line that ends, trailing blanks aside, with a comma
is_array_item(line) == rstrip(line) # <<>> /\ rstrip(line)[Len(rstrip(line))] = ","

\* the line at which the match that starts with the head just before line i
\* ends, 0 when there is none.  (\n+\s*.*,\s*)* takes item lines and the blank
\* lines around them; [\n\r]*\] takes empty lines and the closing bracket,
\* which can be indented only after an item (whose \s* takes the indent)
RECURSIVE array_end(_, _, _)
array_end(content, i, state) ==
  IF i > Len(content) THEN 0
  ELSE LET line == content[i]
       IN IF state = "head"
          THEN IF line = <<>> THEN array_end(content, i + 1, "head")
               ELSE IF Head(line) = "]" THEN i
               ELSE IF lstrip(line) = <<>> THEN array_end(content, i + 1, "blank")
               ELSE IF is_array_item(line) THEN array_end(content, i + 1, "items")
               ELSE 0
          ELSE IF lstrip(line) = <<>> THEN array_end(content, i + 1, state)
          ELSE IF state = "items" /\ Head(lstrip(line)) = "]" THEN i
          ELSE IF is_array_item(line) THEN array_end(content, i + 1, "items")
          ELSE 0

\* the match of the pattern that starts at line h: [end, rest], end the line
\* of the closing bracket (0: no match) and rest the text after the bracket
array_match(content, h) ==
  LET line == content[h]
      e == array_end(content, h + 1, "head")
  IN IF is_empty_array(line)
     THEN [end |-> h, rest |-> SubSeq(line, first_bracket(line) + 2, Len(line))]
     ELSE IF is_array_head(line) /\ e # 0
     THEN [end |-> e, rest |-> Tail(lstrip(content[e]))]
     ELSE [end |-> 0, rest |-> <<>>]

\* dependencies_regex.sub(new_deps, content) from line i on: every match is
\* replaced; text that matches nowhere comes back as it was
RECURSIVE regex_sub(_, _, _)
regex_sub(new_deps, content, i) ==
  IF i > Len(content) THEN <<>>
  ELSE LET m == array_match(content, i)
       IN IF m.end = 0 THEN <<content[i]>> \o regex_sub(new_deps, content, i + 1)
          ELSE SubSeq(new_deps, 1, Len(new_deps) - 1)
               \o <<new_deps[Len(new_deps)] \o m.rest>>
               \o regex_sub(new_deps, content, m.end + 1)

\* lines 4-15: [exc, fs]; open() raises when the file is not there, and
\* nothing is raised when the pattern matches nowhere
replace_dependencies_in_project_toml(f, new_deps, filepath) ==
  IF ~exists(f, filepath) THEN [exc |-> "FileNotFoundError", fs |-> f]
  ELSE [exc |-> "none", fs |-> fs_write(f, filepath, regex_sub(new_deps, f[filepath], 1))]

\* lines 39-43, the script: [exc, fs]; an exception ends it with status 1
lock_to_lower_bound_project(f, lock_file, project_toml) ==
  IF ~exists(f, lock_file) THEN [exc |-> "FileNotFoundError", fs |-> f]
  ELSE LET pinned_deps == read_requirements_lock_file(f, lock_file)
           lower_bound_deps == convert_deps_to_lower_bound(pinned_deps)
           new_deps == lower_boud_deps_to_string(lower_bound_deps)
       IN replace_dependencies_in_project_toml(f, new_deps, project_toml)

----------------------------------------------------------------------------
(* build_maxtext_lock_cli.py: names main derives from the iteration key *)

py_version_sanitized(python_version) == str_replace(python_version, ".", "_")

jax_temp_lock_file(python_version) ==
  "requirements_lock_" \o Join(py_version_sanitized(python_version)) \o ".txt"

output_maxtext_requirement_lock_file(machine_type, python_version) ==
  "maxtext_requirements_lock_" \o machine_type \o "_"
    \o Join(py_version_sanitized(python_version)) \o ".txt"

\* a cleanup list that forgets the resolver lock
files_to_clean_without_uv_lock(machine_type, python_version) ==
  <<output_maxtext_requirement_lock_file(machine_type, python_version), PYPROJECT_TOML>>

files_to_clean_per_iteration(machine_type, python_version) ==
  <<UV_LOCK, output_maxtext_requirement_lock_file(machine_type, python_version),
    PYPROJECT_TOML>>

\* a move list that leaves the descriptor behind
files_to_move_without_descriptor(machine_type, python_version) ==
  <<UV_LOCK, output_maxtext_requirement_lock_file(machine_type, python_version)>>

files_to_move(machine_type, python_version) ==
  <<UV_LOCK, PYPROJECT_TOML,
    output_maxtext_requirement_lock_file(machine_type, python_version)>>

output_folder(machine_type, python_version) ==
  path_join(<<"maxtext", "seed_env_files",
              "py" \o Join(py_version_sanitized(python_version)), machine_type>>)

\* the two constraints files exchanged
constraints_file_of_swapped(machine_type) ==
  IF machine_type = "tpu" THEN CONSTRAINTS_GPU_ONLY ELSE CONSTRAINTS_TPU_ONLY

constraints_file_of(machine_type) ==
  IF machine_type = "tpu" THEN CONSTRAINTS_TPU_ONLY ELSE CONSTRAINTS_GPU_ONLY

\* the manifest of the default branch, whatever commit was asked for
maxtext_remote_url_of_main(commit) ==
  <<"https://raw.githubusercontent.com", GITHUB_ORG, GITHUB_REPO, "main",
    REQUIREMENTS_FILE_NAME>>

maxtext_remote_url(commit) ==
  <<"https://raw.githubusercontent.com", GITHUB_ORG, GITHUB_REPO, Join(commit),
    REQUIREMENTS_FILE_NAME>>

\* prepare_jax_seed.generate_lock_file_path, as path segments
generate_lock_file_path(python_version) ==
  <<"build", "requirements_lock_" \o Join(str_replace(python_version, ".", "_")) \o ".txt">>

final_seed_file_path(commit_hash, python_version) ==
  <<"https://raw.githubusercontent.com", ORG_REPO, Join(commit_hash)>>
    \o generate_lock_file_path(python_version)

\* a bare except clause, which also catches SystemExit
caught_by_bare_except(exc) == exc # "none"

\* the handler of the iteration's try block, "except Exception": it catches
\* every exception but SystemExit (and the other BaseException-only classes)
caught_by_iteration(exc) == exc = "Exception"

\* a sanity check that looks at the first requested version only
first_version_unsupported(python_versions) ==
  python_versions # <<>> /\ python_versions[1] \notin SUPPORTED_PYTHON_VERSIONS

\* lines 62-63: some requested version is not a supported one
has_unsupported_version(python_versions) ==
  \E i \in 1..Len(python_versions) : python_versions[i] \notin SUPPORTED_PYTHON_VERSIONS

\* a driver that validates every host reference
commit_is_validated_always(commit) == TRUE

\* line 69: the host reference is validated unless it is the string "main"
commit_is_validated(commit) == commit # <<"m", "a", "i", "n">>

\* the test of the validator's answer inverted
rejects_commit_inverted(valid) == valid

\* line 70, "if not utils.is_valid_commit(...)": main gives up on a reference
\* the validator does not accept
rejects_commit(valid) == ~valid

\* a Builder that ends the process when a resolver step fails
build_seed_env_exits(ret) == IF ret # 0 THEN "SystemExit" ELSE "none"

\* what build_seed_env raises to main: nothing, whatever happened; its except
\* clauses turn every failure of a step into the return value 1, and main
\* does not look at the return value
build_seed_env_raises(ret) == "none"

\* shutil.move of the listed files that exist into folder, in list order:
\* [fs, exc, moved]; shutil.move raises when the destination already holds
\* a file of that name, and the files after it stay where they are
RECURSIVE move_files(_, _, _, _)
move_files(f, files, folder, moved) ==
  IF files = <<>> THEN [fs |-> f, exc |-> "none", moved |-> moved]
  ELSE LET f_to_move == Head(files)
           dst == path_join(<<folder, f_to_move>>)
       IN IF ~exists(f, f_to_move) THEN move_files(f, Tail(files), folder, moved)
          ELSE IF exists(f, dst)
          THEN [fs |-> f, exc |-> "Exception", moved |-> Append(moved, f_to_move)]
          ELSE move_files(fs_write(fs_remove(f, f_to_move), dst, f[f_to_move]),
                          Tail(files), folder, Append(moved, f_to_move))

----------------------------------------------------------------------------
(* Inputs *)

MAIN == <<"m","a","i","n">>
\* a 40-character commit hash, and a reference that is not one
COMMIT_SHA == <<"d","3","f","0","8","7","1","3","b","c","8","c","c","2","7","0","0","8","5","1","c","6","1","c","5","5","d","7","d","7","d","d","e","1","d","e","5","a","0","2">>
NOT_A_SHA == <<"a","b","c","d","e","f","1","2","3","4","5","6">>
JAX_COMMIT_SHA == <<"1","a","d","0","5","b","b","2","6","1","0","5","f","2","3","e","e","7","7","2","8","b","3","6","c","c","a","1","2","9","0","1","f","e","7","0","e","1","8","7">>

\* the references a command line gives for the host and the seed repository:
\* the default branch with a release tag, both pinned to a commit, or a host
\* reference that is not a commit hash
RefPairs ==
  {<<MAIN, LATEST_JAX_VERSION>>, <<COMMIT_SHA, JAX_COMMIT_SHA>>, <<NOT_A_SHA, LATEST_JAX_VERSION>>}
\* a version string that is not of the form X.Y
MALFORMED_VERSION == <<"3">>
PythonVersions == {V3_10, V3_11, V3_12, MALFORMED_VERSION}

VersionLists == UNION {[1..n -> PythonVersions] : n \in 1..MaxVersions}

CommandLines ==
  {[ok |-> FALSE, maxtext_github_commit |-> <<>>,
    jax_github_commit_or_version |-> <<>>, python_versions |-> <<>>]}
  \cup
  {[ok |-> TRUE, maxtext_github_commit |-> refs[1],
    jax_github_commit_or_version |-> refs[2], python_versions |-> versions] :
     refs \in RefPairs, versions \in VersionLists}

\* The working directory the tool is started in: nothing but the two
\* constraints files, which the user supplies.
FreshDirectory ==
  (CONSTRAINTS_TPU_ONLY :> <<"libtpu">>) @@
  (CONSTRAINTS_GPU_ONLY :> <<"torch", "", "torchvision">>)

NoBuild == [trace |-> <<>>, ret |-> 0]

Init ==
  /\ argv \in CommandLines
  /\ pc = "parse_args"
  /\ vi = 1
  /\ mi = 1
  /\ fs = FreshDirectory
  /\ dirs = {}
  /\ log = <<>>
  /\ last_build = NoBuild
  /\ faults = {}
  /\ injected = 0
  /\ exit_code = <<>>

----------------------------------------------------------------------------
(* main *)

python_version == argv.python_versions[vi]
machine_type == MACHINE_TYPES[mi]

\* the process ends: sys.exit(main()) or an uncaught SystemExit
Exit(code) ==
  /\ pc' = "done"
  /\ exit_code' = <<code>>

\* lines 59: argparse exits with status 2 when a required option is missing
ParseArgs ==
  /\ pc = "parse_args"
  /\ IF argv.ok
     THEN pc' = "check_versions" /\ UNCHANGED exit_code
     ELSE Exit(2)
  /\ UNCHANGED <<argv, vi, mi, fs, dirs, log, last_build, faults, injected>>

\* lines 61-66: every requested version must be a supported one
CheckVersions ==
  /\ pc = "check_versions"
  /\ IF has_unsupported_version(argv.python_versions)
     THEN Exit(1)
     ELSE pc' = "validate_commit" /\ UNCHANGED exit_code
  /\ UNCHANGED <<argv, vi, mi, fs, dirs, log, last_build, faults, injected>>

\* lines 68-72: any reference but 'main' is checked with is_valid_commit
ValidateCommit ==
  /\ pc = "validate_commit"
  /\ IF commit_is_validated(argv.maxtext_github_commit)
     THEN \E response \in ApiResponses :
            LET org_repo == GITHUB_ORG \o "/" \o GITHUB_REPO
                v == is_valid_commit(argv.maxtext_github_commit, org_repo, response)
            IN /\ log' = Append(log, <<"is_valid_commit",
                                       Join(argv.maxtext_github_commit), org_repo>>)
               /\ faults' = faults
                    \cup (IF v.net /\ response = "rate_limit"
                          THEN {"rate_limit_host_validation"} ELSE {})
                    \cup (IF v.exc = "none" /\ ~v.ret THEN {"host_commit_invalid"} ELSE {})
                    \cup (IF v.net /\ response = "bad_json" THEN {"host_bad_json"} ELSE {})
               /\ IF v.exc = "SystemExit" THEN Exit(1)
                  ELSE IF rejects_commit(v.ret) THEN Exit(1)
                  ELSE pc' = "download_host" /\ UNCHANGED exit_code
     ELSE /\ pc' = "download_host"
          /\ UNCHANGED <<log, faults, exit_code>>
  /\ UNCHANGED <<argv, vi, mi, fs, dirs, last_build, injected>>

\* lines 74-81: the host manifest is downloaded; sys.exit(1) inside
\* download_remote_file is not an Exception, so it ends the process
DownloadHost ==
  /\ pc = "download_host"
  /\ \E outcome \in DownloadOutcomes :
       LET url == maxtext_remote_url(argv.maxtext_github_commit)
           d == download_remote_file(fs, url, outcome)
       IN /\ log' = Append(log, <<"download_remote_file", path_join(url)>>)
          /\ fs' = d.fs
          /\ faults' = faults \cup (IF d.exc # "none" THEN {"host_download"} ELSE {})
          /\ IF d.exc # "none" THEN Exit(1)
             ELSE pc' = "fix_host" /\ UNCHANGED exit_code
  /\ UNCHANGED <<argv, vi, mi, dirs, last_build, injected>>

\* line 83: the host manifest is patched in place; fix_maxtext_requirements
\* raises nothing, so main always goes on to the loop
FixHost ==
  /\ pc = "fix_host"
  /\ \E outcome \in FixOutcomes :
       /\ outcome # "ok" => injected < MaxFaults
       /\ fs' = fix_maxtext_requirements(fs, REQUIREMENTS_FILE_NAME, outcome)
       /\ faults' = faults \cup (IF outcome # "ok" THEN {"host_fix"} ELSE {})
       /\ injected' = IF outcome # "ok" THEN injected + 1 ELSE injected
  /\ log' = Append(log, <<"fix_maxtext_requirements", REQUIREMENTS_FILE_NAME>>)
  /\ pc' = "next_version"
  /\ UNCHANGED <<argv, vi, mi, dirs, last_build, exit_code>>

\* lines 89-94: the head of the loop over python versions
NextVersion ==
  /\ pc = "next_version"
  /\ vi <= Len(argv.python_versions)
  /\ fs' = _cleanup_files(fs, <<jax_temp_lock_file(python_version)>>)
  /\ log' = Append(log, <<"_cleanup_files", jax_temp_lock_file(python_version)>>)
  /\ mi' = 1
  /\ pc' = "cleanup_iteration"
  /\ UNCHANGED <<argv, vi, dirs, last_build, faults, injected, exit_code>>

\* lines 167-169: the loop is over, main returns 0
Return ==
  /\ pc = "next_version"
  /\ vi > Len(argv.python_versions)
  /\ Exit(0)
  /\ UNCHANGED <<argv, vi, mi, fs, dirs, log, last_build, faults, injected>>

\* lines 97-107: the head of the loop over machine types
CleanupIteration ==
  /\ pc = "cleanup_iteration"
  /\ fs' = _cleanup_files(fs, files_to_clean_per_iteration(machine_type, python_version))
  /\ log' = Append(log, <<"_cleanup_files">>
                          \o files_to_clean_per_iteration(machine_type, python_version))
  /\ last_build' = NoBuild
  /\ pc' = "generate_pyproject"
  /\ UNCHANGED <<argv, vi, mi, dirs, faults, injected, exit_code>>

\* line 111: the value generate_pyproject_toml returns is discarded
GeneratePyproject ==
  /\ pc = "generate_pyproject"
  /\ fs' = generate_pyproject_toml(fs, python_version).fs
  /\ log' = Append(log, <<"generate_pyproject_toml", Join(python_version)>>)
  /\ pc' = "prepare_seed"
  /\ UNCHANGED <<argv, vi, mi, dirs, last_build, faults, injected, exit_code>>

\* the continue of lines 160-165, and the end of an iteration's body
NextIteration ==
  IF mi < Len(MACHINE_TYPES)
  THEN mi' = mi + 1 /\ vi' = vi /\ pc' = "cleanup_iteration"
  ELSE mi' = 1 /\ vi' = vi + 1 /\ pc' = "next_version"

\* prepare_jax_seed.run(tag, python_version): resolve the reference to a commit
\* hash, then download that commit's requirements lock file: [exc, fs, resolved]
prepare_jax_seed_run(f, tag_name, version, tag_response, commit_response, outcome) ==
  LET r == get_commit_hash_for_tag(tag_name, ORG_REPO, tag_response, commit_response)
      d == download_remote_file(f, final_seed_file_path(r.hash, version), outcome)
  IN IF r.exc # "none" THEN [exc |-> r.exc, fs |-> f, resolved |-> r]
     ELSE [exc |-> d.exc, fs |-> d.fs, resolved |-> r]

\* lines 113-121: python 3.10 takes the latest JAX release and then calls
\* apply_patch with two arguments, which the function does not take
PrepareSeed ==
  /\ pc = "prepare_seed"
  /\ LET legacy == python_version = V3_10
         ref == IF legacy THEN LATEST_JAX_VERSION
                ELSE argv.jax_github_commit_or_version
         \* the commits API is asked only when the tag lookup names no sha and
         \* the reference has the shape of one
         asked(tag_response) ==
           tag_response \in {"no_sha", "net_error"} /\ IsCommitShaShape(ref)
     IN \E tag_response \in ApiResponses :
        \E commit_response \in (IF asked(tag_response) THEN ApiResponses ELSE {"no_sha"}) :
        \E outcome \in (IF get_commit_hash_for_tag(ref, ORG_REPO, tag_response,
                                                   commit_response).exc = "none"
                        THEN DownloadOutcomes ELSE {"ok"}) :
          LET s == prepare_jax_seed_run(fs, ref, python_version,
                                        tag_response, commit_response, outcome)
              exc == IF s.exc = "none" /\ legacy THEN "Exception" ELSE s.exc
              limited == tag_response = "rate_limit"
                           \/ (asked(tag_response) /\ commit_response = "rate_limit")
          IN /\ log' = Append(log, <<"prepare_jax_seed.run", Join(ref),
                                     Join(python_version)>>)
             /\ fs' = s.fs
             /\ faults' = faults
                  \cup (IF tag_response = "rate_limit" THEN {"rate_limit_tag"} ELSE {})
                  \cup (IF asked(tag_response) /\ commit_response = "rate_limit"
                        THEN {"rate_limit_seed_validation"} ELSE {})
                  \cup (IF s.resolved.exc # "none" /\ ~limited
                        THEN {"seed_resolution"} ELSE {})
                  \cup (IF s.resolved.exc = "none" /\ s.exc # "none"
                        THEN {"seed_download"} ELSE {})
             /\ IF exc = "none" THEN pc' = "build" /\ UNCHANGED <<vi, mi, exit_code>>
                ELSE IF caught_by_iteration(exc) THEN NextIteration /\ UNCHANGED exit_code
                ELSE Exit(1) /\ UNCHANGED <<vi, mi>>
  /\ UNCHANGED <<argv, dirs, last_build, injected>>

\* lines 123-140: build_seed_env with the constraints file of the machine type
Build ==
  /\ pc = "build"
  /\ LET seed_file == jax_temp_lock_file(python_version)
         output_file == output_maxtext_requirement_lock_file(machine_type, python_version)
         constraints_file == constraints_file_of(machine_type)
         commands == Len(build_steps(fs, seed_file, REQUIREMENTS_FILE_NAME,
                                     output_file, constraints_file)) - 2
     IN \E fail_at \in 0..(IF injected < MaxFaults THEN commands ELSE 0) :
          LET b == build_seed_env(fs, seed_file, REQUIREMENTS_FILE_NAME,
                                  output_file, constraints_file, fail_at)
              exc == build_seed_env_raises(b.ret)
          IN /\ fs' = b.fs
             /\ last_build' = [trace |-> b.trace, ret |-> b.ret]
             /\ log' = Append(log, <<"build_seed_env", seed_file, REQUIREMENTS_FILE_NAME,
                                     output_file, constraints_file>>)
             /\ faults' = faults \cup (IF fail_at # 0 THEN {"resolver"} ELSE {})
             /\ injected' = IF fail_at # 0 THEN injected + 1 ELSE injected
             /\ IF exc = "none" THEN pc' = "stage" /\ UNCHANGED <<vi, mi, exit_code>>
                ELSE IF caught_by_iteration(exc) THEN NextIteration /\ UNCHANGED exit_code
                ELSE Exit(1) /\ UNCHANGED <<vi, mi>>
  /\ UNCHANGED <<argv, dirs>>

\* lines 142-159: create the output folder and move the artifacts into it
Stage ==
  /\ pc = "stage"
  /\ LET folder == output_folder(machine_type, python_version)
         m == move_files(fs, files_to_move(machine_type, python_version), folder, <<>>)
     IN /\ dirs' = dirs \cup {folder}
        /\ fs' = m.fs
        /\ log' = Append(log, <<"os.makedirs", folder>>)
                    \o [i \in 1..Len(m.moved) |-> <<"shutil.move", m.moved[i], folder>>]
        /\ faults' = faults \cup (IF m.exc # "none" THEN {"staging"} ELSE {})
        /\ last_build' = NoBuild
        /\ IF m.exc = "none" \/ caught_by_iteration(m.exc)
           THEN NextIteration /\ UNCHANGED exit_code
           ELSE Exit(1) /\ UNCHANGED <<vi, mi>>
  /\ UNCHANGED <<argv, injected>>

Next ==
  \/ ParseArgs
  \/ CheckVersions
  \/ ValidateCommit
  \/ DownloadHost
  \/ FixHost
  \/ NextVersion
  \/ Return
  \/ CleanupIteration
  \/ GeneratePyproject
  \/ PrepareSeed
  \/ Build
  \/ Stage

Spec == Init /\ [][Next]_vars

----------------------------------------------------------------------------
(* A second run in a directory an earlier run has used *)

\* what an earlier run for python 3.11 can have left in the working directory
StaleFiles ==
  {UV_LOCK, PYPROJECT_TOML, jax_temp_lock_file(V3_11),
   output_maxtext_requirement_lock_file("tpu", V3_11),
   output_maxtext_requirement_lock_file("gpu", V3_11)}

\* the output folders of an earlier run for python 3.11 that staged everything
EarlierFolders == {output_folder(MACHINE_TYPES[j], V3_11) : j \in 1..Len(MACHINE_TYPES)}

EarlierStaged ==
  {path_join(<<output_folder(MACHINE_TYPES[j], V3_11), files_to_move(MACHINE_TYPES[j], V3_11)[k]>>) :
     j \in 1..Len(MACHINE_TYPES), k \in 1..3}

\* the directory with some stale files and, or not, the earlier staged outputs
UsedDirectory(stale, staged) ==
  [p \in DOMAIN FreshDirectory \cup stale \cup staged |->
     IF p \in DOMAIN FreshDirectory THEN FreshDirectory[p] ELSE <<"stale">>]

InitRerun ==
  /\ argv = [ok |-> TRUE, maxtext_github_commit |-> MAIN,
             jax_github_commit_or_version |-> LATEST_JAX_VERSION,
             python_versions |-> <<V3_11>>]
  /\ pc = "parse_args"
  /\ vi = 1
  /\ mi = 1
  /\ \E stale \in SUBSET StaleFiles : \E earlier \in BOOLEAN :
       /\ fs = UsedDirectory(stale, IF earlier THEN EarlierStaged ELSE {})
       /\ dirs = IF earlier THEN EarlierFolders ELSE {}
  /\ log = <<>>
  /\ last_build = NoBuild
  /\ faults = {}
  /\ injected = 0
  /\ exit_code = <<>>

SpecRerun == InitRerun /\ [][Next]_vars

----------------------------------------------------------------------------
(* Single calls of the helper functions: the arguments are in argv, the    *)
(* files in fs, and the call leaves what it returned in log.               *)

\* every text of at most n characters of the alphabet
Strings(alphabet, n) == UNION {[1..k -> alphabet] : k \in 0..n}

VersionAlphabet == {"3", "1", ".", "a", "\n"}

\* the python_version arguments tried
VersionStrings ==
  Strings(VersionAlphabet, MaxTextLen)
    \cup {V3_10, V3_11, V3_12, V3_11 \o <<"\n">>, V3_11 \o <<".", "2">>}

\* the input_ref arguments tried
RefStrings ==
  {<<>>, MAIN, NOT_A_SHA, LATEST_JAX_VERSION, COMMIT_SHA, JAX_COMMIT_SHA, TAG_SHA,
   SubSeq(COMMIT_SHA, 1, 39), COMMIT_SHA \o <<"0">>, COMMIT_SHA \o <<"\n">>,
   [COMMIT_SHA EXCEPT ![7] = "g"], [COMMIT_SHA EXCEPT ![9] = "B"],
   [COMMIT_SHA EXCEPT ![40] = " "]}

NoFiles == [p \in {} |-> <<>>]

\* longest lock file tried
MaxLockLines == 2

\* the lines lock files are made of
LockLines ==
  {<<"p", "k", "g", "=", "=", "1", ".", "2", ".", "3">>,
   <<"p", "k", "g", ">", "=", "1", ".", "0">>,
   <<"p", "k", "g", " ", "@", " ", "u">>,
   <<"#", " ", "c", "=", "=", "1">>,
   <<"a", "=", "=", "1", " ", "#", " ", "c">>,
   <<" ", " ", "b", "=", "=", "2", " ", " ">>,
   <<>>,
   <<"x", "=", "=", "=", "1">>,
   <<"a", "=", "=", "1", ",", "b", "=", "=", "2">>,
   <<"c", " ", "@", " ", "u", "=", "=", "1">>}

LockFiles == UNION {[1..k -> LockLines] : k \in 0..MaxLockLines}

LOCK_FILE == "lock.txt"

\* project descriptors: as generate_pyproject_toml leaves the array, without
\* any array, with an item, as the script itself leaves it (no comma after
\* the last item), with the array on one line, with another array only
GENERATED_DESCRIPTOR ==
  <<<<"[", "p", "r", "o", "j", "e", "c", "t", "]">>,
   <<"d", "e", "p", "e", "n", "d", "e", "n", "c", "i", "e", "s", " ", "=", " ", "[">>,
   <<"]">>>>

DESCRIPTOR_WITHOUT_ARRAY ==
  <<<<"[", "p", "r", "o", "j", "e", "c", "t", "]">>,
   <<"n", "a", "m", "e", " ", "=", " ", "\"", "x", "\"">>>>

DESCRIPTOR_WITH_ITEMS ==
  <<<<"[", "p", "r", "o", "j", "e", "c", "t", "]">>,
   <<"d", "e", "p", "e", "n", "d", "e", "n", "c", "i", "e", "s", " ", "=", " ", "[">>,
   <<" ", " ", " ", " ", "\"", "a", ">", "=", "1", "\"", ",">>,
   <<"]">>,
   <<"x", " ", "=", " ", "1">>>>

DESCRIPTOR_REWRITTEN ==
  <<<<"[", "p", "r", "o", "j", "e", "c", "t", "]">>,
   <<"d", "e", "p", "e", "n", "d", "e", "n", "c", "i", "e", "s", " ", "=", " ", "[">>,
   <<" ", " ", " ", " ", "\"", "a", ">", "=", "1", "\"">>,
   <<"]">>>>

DESCRIPTOR_EMPTY_ARRAY ==
  <<<<"d", "e", "p", "e", "n", "d", "e", "n", "c", "i", "e", "s", " ", "=", " ", "[", "]">>>>

DESCRIPTOR_OTHER_ARRAY ==
  <<<<"c", "l", "a", "s", "s", "i", "f", "i", "e", "r", "s", " ", "=", " ", "[">>,
   <<"]">>>>

Descriptors ==
  {GENERATED_DESCRIPTOR, DESCRIPTOR_WITHOUT_ARRAY, DESCRIPTOR_WITH_ITEMS, DESCRIPTOR_REWRITTEN,
   DESCRIPTOR_EMPTY_ARRAY, DESCRIPTOR_OTHER_ARRAY}

\* longest host manifest tried
MaxManifestLines == 2

\* most calls of fix_maxtext_requirements on the same file, one after another
MaxRepeats == 2

\* the lines host manifests are made of: the four patched entries, entries
\* that are not, an entry patched twice and two in one line, lines with a
\* carriage return, and a source link that names a revision already
ManifestLines ==
  {<<"p", "r", "o", "t", "o", "b", "u", "f", "=", "=", "3", ".", "2", "0", ".", "3">>,
   <<"s", "e", "n", "t", "e", "n", "c", "e", "p", "i", "e", "c", "e", "=", "=", "0", ".", "1", ".", "9", "7">>,
   <<"j", " ", "@", " ", "g", "/", "J", "e", "t", "S", "t", "r", "e", "a", "m", ".", "g", "i", "t">>,
   <<"l", " ", "@", " ", "g", "/", "l", "o", "g", "g", "i", "n", "g", ".", "g", "i", "t">>,
   <<"j", "a", "x">>,
   <<>>,
   <<"p", "r", "o", "t", "o", "b", "u", "f", "=", "=", "3", ".", "2", "0", ".", "3", ";", "p", "r", "o", "t", "o", "b", "u", "f", "=", "=", "3", ".", "2", "0", ".", "3", "0">>,
   <<"g", "/", "l", "o", "g", "g", "i", "n", "g", ".", "g", "i", "t", " ", "g", "/", "J", "e", "t", "S", "t", "r", "e", "a", "m", ".", "g", "i", "t">>,
   <<"j", "a", "x", "\r">>,
   <<"a", "\r", "b">>,
   <<"j", " ", "@", " ", "g", "/", "J", "e", "t", "S", "t", "r", "e", "a", "m", ".", "g", "i", "t", "@", "v", "1">>}

Manifests == UNION {[1..k -> ManifestLines] : k \in 0..MaxManifestLines}

\* longest list handed to _cleanup_files
MaxCleanupFiles == 3

\* the files a cleanup list names, and a file no list names
CleanupNames == {UV_LOCK, PYPROJECT_TOML, REQUIREMENTS_FILE_NAME}
UNLISTED_FILE == "constraints_tpu_only.txt"

CleanupLists == UNION {[1..k -> CleanupNames] : k \in 0..MaxCleanupFiles}

\* a directory holding the given files
DirectoryOf(names) == [p \in names |-> <<p>>]

InitCalls ==
  /\ pc = "call"
  /\ \/ /\ argv \in [function : {"generate_pyproject_toml"}, python_version : VersionStrings]
        /\ fs \in {NoFiles, fs_write(NoFiles, PYPROJECT_TOML, <<"stale">>)}
     \/ /\ argv \in [function : {"is_valid_commit"}, input_ref : RefStrings,
                      org_repo : {ORG_REPO}]
        /\ fs = NoFiles
     \/ /\ argv \in [function : {"get_commit_hash_for_tag"}, tag_name : RefStrings,
                      org_repo : {ORG_REPO}]
        /\ fs = NoFiles
     \/ /\ argv \in [function : {"_cleanup_files"}, files_to_clean_per_iteration : CleanupLists]
        /\ fs \in {DirectoryOf(names) : names \in SUBSET (CleanupNames \cup {UNLISTED_FILE})}
     \/ /\ argv = [function |-> "fix_maxtext_requirements", file_path |-> REQUIREMENTS_FILE_NAME]
        /\ fs \in {NoFiles}
                  \cup {fs_write(NoFiles, REQUIREMENTS_FILE_NAME, m) : m \in Manifests}
     \/ /\ argv = [function |-> "convert_deps_to_lower_bound", filepath |-> LOCK_FILE]
        /\ fs \in {fs_write(NoFiles, LOCK_FILE, lock) : lock \in LockFiles}
     \/ /\ argv = [function |-> "lock_to_lower_bound_project", lock_file |-> LOCK_FILE,
                   project_toml |-> PYPROJECT_TOML]
        /\ \E lock \in {l \in LockFiles : Len(l) = 1} :
             fs \in {fs_write(NoFiles, LOCK_FILE, lock)}
                      \cup {fs_write(fs_write(NoFiles, LOCK_FILE, lock), PYPROJECT_TOML, d) :
                              d \in Descriptors}
  /\ vi = 1
  /\ mi = 1
  /\ dirs = {}
  /\ log = <<>>
  /\ last_build = NoBuild
  /\ faults = {}
  /\ injected = 0
  /\ exit_code = <<>>

\* utils.generate_pyproject_toml(python_version)
Call_generate_pyproject_toml ==
  /\ pc = "call"
  /\ argv.function = "generate_pyproject_toml"
  /\ LET r == generate_pyproject_toml(fs, argv.python_version)
     IN fs' = r.fs /\ log' = <<r.ret>>
  /\ pc' = "returned"
  /\ UNCHANGED <<argv, vi, mi, dirs, last_build, faults, injected, exit_code>>

\* utils.is_valid_commit(input_ref, org_repo), the API answering as it likes
Call_is_valid_commit ==
  /\ pc = "call"
  /\ argv.function = "is_valid_commit"
  /\ \E response \in ApiResponses :
       LET r == is_valid_commit(argv.input_ref, argv.org_repo, response)
       IN log' = <<[ret |-> r.ret, exc |-> r.exc, net |-> r.net, response |-> response]>>
  /\ pc' = "returned"
  /\ UNCHANGED <<argv, vi, mi, fs, dirs, last_build, faults, injected, exit_code>>

\* utils.get_commit_hash_for_tag(tag_name, org_repo): the tags-ref endpoint and
\* the commits endpoint each answer as they like
Call_get_commit_hash_for_tag ==
  /\ pc = "call"
  /\ argv.function = "get_commit_hash_for_tag"
  /\ \E tag_response \in ApiResponses, commit_response \in ApiResponses :
       LET r == get_commit_hash_for_tag(argv.tag_name, argv.org_repo,
                                        tag_response, commit_response)
       IN log' = <<[hash |-> r.hash, exc |-> r.exc, validated |-> r.validated,
                    tag_response |-> tag_response, commit_response |-> commit_response]>>
  /\ pc' = "returned"
  /\ UNCHANGED <<argv, vi, mi, fs, dirs, last_build, faults, injected, exit_code>>

\* _cleanup_files(files_to_clean_per_iteration); the call leaves the
\* directory it found and the os.remove calls it made
Call__cleanup_files ==
  /\ pc = "call"
  /\ argv.function = "_cleanup_files"
  /\ fs' = _cleanup_files(fs, argv.files_to_clean_per_iteration)
  /\ log' = <<[found |-> fs,
               removed |-> os_remove_calls(fs, argv.files_to_clean_per_iteration)]>>
  /\ pc' = "returned"
  /\ UNCHANGED <<argv, vi, mi, dirs, last_build, faults, injected, exit_code>>

\* utils.fix_maxtext_requirements(file_path), and again on the file it left;
\* each call leaves what it found and how the rewriting went
Call_fix_maxtext_requirements ==
  /\ pc \in {"call", "returned"}
  /\ argv.function = "fix_maxtext_requirements"
  /\ Len(log) < MaxRepeats
  /\ \E outcome \in FixOutcomes :
       /\ fs' = fix_maxtext_requirements(fs, argv.file_path, outcome)
       /\ log' = Append(log, [outcome |-> outcome,
                              found |-> IF exists(fs, argv.file_path)
                                        THEN <<fs[argv.file_path]>> ELSE <<>>])
  /\ pc' = "returned"
  /\ UNCHANGED <<argv, vi, mi, dirs, last_build, faults, injected, exit_code>>

\* convert_deps_to_lower_bound(read_requirements_lock_file(filepath))
Call_convert_deps_to_lower_bound ==
  /\ pc = "call"
  /\ argv.function = "convert_deps_to_lower_bound"
  /\ log' = <<convert_deps_to_lower_bound(read_requirements_lock_file(fs, argv.filepath))>>
  /\ pc' = "returned"
  /\ UNCHANGED <<argv, vi, mi, fs, dirs, last_build, faults, injected, exit_code>>

\* convert_deps_to_lower_bound applied to the list it returned
Call_convert_deps_to_lower_bound_again ==
  /\ pc = "returned"
  /\ argv.function = "convert_deps_to_lower_bound"
  /\ Len(log) = 1
  /\ log' = Append(log, convert_deps_to_lower_bound(log[1]))
  /\ UNCHANGED <<argv, pc, vi, mi, fs, dirs, last_build, faults, injected, exit_code>>

\* python lock_to_lower_bound_project.py lock_file project_toml; the call
\* leaves the exception that ended it and the descriptor it found
Call_lock_to_lower_bound_project ==
  /\ pc = "call"
  /\ argv.function = "lock_to_lower_bound_project"
  /\ LET r == lock_to_lower_bound_project(fs, argv.lock_file, argv.project_toml)
     IN /\ fs' = r.fs
        /\ log' = <<[exc |-> r.exc,
                     found |-> IF exists(fs, argv.project_toml)
                               THEN <<fs[argv.project_toml]>> ELSE <<>>]>>
  /\ pc' = "returned"
  /\ UNCHANGED <<argv, vi, mi, dirs, last_build, faults, injected, exit_code>>

NextCalls ==
  \/ Call_generate_pyproject_toml
  \/ Call_is_valid_commit
  \/ Call_get_commit_hash_for_tag
  \/ Call_fix_maxtext_requirements
  \/ Call__cleanup_files
  \/ Call_convert_deps_to_lower_bound
  \/ Call_convert_deps_to_lower_bound_again
  \/ Call_lock_to_lower_bound_project

SpecCalls == InitCalls /\ [][NextCalls]_vars

----------------------------------------------------------------------------
(* Reading the history *)

\* the positions of the log at which main called the named function
Calls(name) == {i \in 1..Len(log) : log[i][1] = name}

\* the positions of the log that belong to the loop over versions
IterationSteps ==
  {i \in 1..Len(log) :
     log[i][1] \in {"_cleanup_files", "generate_pyproject_toml", "prepare_jax_seed.run",
                    "build_seed_env", "os.makedirs", "shutil.move"}}

\* host commit accepted, host manifest downloaded and patched
PreconditionSucceeded ==
  Calls("fix_maxtext_requirements") # {} /\ "host_fix" \notin faults

RateLimitFaults ==
  {"rate_limit_host_validation", "rate_limit_tag", "rate_limit_seed_validation"}

\* the build_seed_env calls of the run, in order
BuilderCalls == SelectSeq(log, LAMBDA e : e[1] = "build_seed_env")

\* the file-name form of a supported version, written out
Sanitized(version) == IF version = V3_11 THEN "3_11" ELSE "3_12"

----------------------------------------------------------------------------
(* C1 *)

\* C1: once the host manifest is downloaded and patched, a run in which the
\* only failures are resolver steps exiting non-zero ends with exit code 0,
\* however many iterations fail that way.
C1_ExitZeroDespiteResolverFailures ==
  (pc = "done" /\ PreconditionSucceeded /\ faults \subseteq {"resolver"})
    => exit_code = <<0>>

\* a finished run in which the Builder failed in every iteration
C1_Witness ==
  /\ pc = "done"
  /\ exit_code = <<0>>
  /\ PreconditionSucceeded
  /\ faults = {"resolver"}
  /\ Len(BuilderCalls) = 2 * Len(argv.python_versions)
  /\ injected = Len(BuilderCalls)

----------------------------------------------------------------------------
(* C2 *)

\* C2: when the precondition phase succeeds and no rate-limit response
\* occurs, a finished run has begun (cleanup and Initializer call) the
\* iteration of every requested version and machine type.
C2_EveryIterationBegins ==
  (pc = "done" /\ PreconditionSucceeded /\ faults \cap RateLimitFaults = {})
    => /\ Cardinality(Calls("generate_pyproject_toml")) = 2 * Len(argv.python_versions)
       /\ \A i \in 1..Len(argv.python_versions) : \A j \in 1..Len(MACHINE_TYPES) :
            \E k \in 1..(Len(log) - 1) :
              /\ log[k] = <<"_cleanup_files">>
                   \o files_to_clean_per_iteration(MACHINE_TYPES[j], argv.python_versions[i])
              /\ log[k + 1] = <<"generate_pyproject_toml", Join(argv.python_versions[i])>>

----------------------------------------------------------------------------
(* C3 *)

\* C3: when a resolver step has exited non-zero in an iteration, staging
\* moves none of the iteration's artifacts into the output directory and the
\* driver goes on to the next iteration key.
C3_FailedBuildStagesNothing ==
  [][(pc = "stage" /\ last_build.ret # 0)
       => /\ DOMAIN fs' = DOMAIN fs
          /\ pc' \in {"cleanup_iteration", "next_version"}]_vars

----------------------------------------------------------------------------
(* C4 *)

\* C4: when the validator returns false for a host commit other than 'main',
\* main has returned 1 and the one call it made is
\* is_valid_commit(commit, 'AI-Hypercomputer/maxtext'): no download, no
\* iteration, no file touched.
C4_InvalidHostCommitIsFatal ==
  "host_commit_invalid" \in faults
    => /\ argv.maxtext_github_commit # MAIN
       /\ pc = "done"
       /\ exit_code = <<1>>
       /\ log = << <<"is_valid_commit", Join(argv.maxtext_github_commit),
                     "AI-Hypercomputer/maxtext">> >>
       /\ fs = FreshDirectory
       /\ dirs = {}

\* the API knows no commit of that hash
C4_Witness ==
  /\ "host_commit_invalid" \in faults
  /\ argv.maxtext_github_commit = COMMIT_SHA
  /\ pc = "done"

----------------------------------------------------------------------------
(* C5 *)

\* C5: when downloading or patching the host manifest fails, the process has
\* ended with exit code 1 and no step of any iteration has been performed.
C5_HostManifestFailureIsFatal ==
  faults \cap {"host_download", "host_fix"} # {}
    => /\ pc = "done"
       /\ exit_code = <<1>>
       /\ IterationSteps = {}

----------------------------------------------------------------------------
(* C6 *)

\* C6: once a rate-limit response has been received, at whichever call site,
\* the run has ended with a non-zero exit code and the call that received it
\* is the last thing main did.
C6_RateLimitIsFatal ==
  faults \cap RateLimitFaults # {}
    => /\ pc = "done"
       /\ exit_code # <<>>
       /\ exit_code # <<0>>
       /\ log # <<>>
       /\ Last(log)[1] \in {"is_valid_commit", "prepare_jax_seed.run"}
       /\ Cardinality(faults \cap RateLimitFaults) = 1

\* the commits API answers with the rate-limit message inside a later
\* iteration, after earlier iterations have run
C6_Witness ==
  /\ "rate_limit_seed_validation" \in faults
  /\ Len(BuilderCalls) >= 1
  /\ pc = "done"

----------------------------------------------------------------------------
(* C7 *)

StagedFor(version, machine) ==
  {"maxtext/seed_env_files/py" \o version \o "/" \o machine \o "/uv.lock",
   "maxtext/seed_env_files/py" \o version \o "/" \o machine \o "/pyproject.toml",
   "maxtext/seed_env_files/py" \o version \o "/" \o machine
      \o "/maxtext_requirements_lock_" \o machine \o "_" \o version \o ".txt"}

\* C7: a run for 3.11 and 3.12 in which every step succeeds stages exactly
\* the four directories py<V>/<machine>, each holding exactly uv.lock,
\* pyproject.toml and maxtext_requirements_lock_<machine>_<V>.txt of its key.
C7_FourDirectoriesOfThree ==
  (/\ pc = "done"
   /\ exit_code = <<0>>
   /\ argv.python_versions = <<V3_11, V3_12>>
   /\ faults = {})
    => /\ dirs = {"maxtext/seed_env_files/py3_11/tpu", "maxtext/seed_env_files/py3_11/gpu",
                  "maxtext/seed_env_files/py3_12/tpu", "maxtext/seed_env_files/py3_12/gpu"}
       /\ {p \in DOMAIN fs : p \notin DOMAIN FreshDirectory
             /\ p \notin {"requirements.txt", "requirements_lock_3_11.txt",
                          "requirements_lock_3_12.txt"}}
            = UNION {StagedFor(v, m) : v \in {"3_11", "3_12"}, m \in {"tpu", "gpu"}}
       /\ \A m \in {"tpu", "gpu"} :
            /\ fs["maxtext/seed_env_files/py3_11/" \o m \o "/pyproject.toml"][4]
                 = "requires-python = \"==3.11.*\""
            /\ fs["maxtext/seed_env_files/py3_12/" \o m \o "/pyproject.toml"][4]
                 = "requires-python = \"==3.12.*\""

C7_Witness ==
  /\ pc = "done"
  /\ exit_code = <<0>>
  /\ argv.python_versions = <<V3_11, V3_12>>
  /\ faults = {}

----------------------------------------------------------------------------
(* C8 *)

\* the Builder call the claim names for a version and a machine type
ExpectedBuilderCall(version, machine) ==
  <<"build_seed_env",
    "requirements_lock_" \o Sanitized(version) \o ".txt",
    "requirements.txt",
    "maxtext_requirements_lock_" \o machine \o "_" \o Sanitized(version) \o ".txt",
    IF machine = "tpu" THEN "constraints_tpu_only.txt" ELSE "constraints_gpu_only.txt">>

\* C8: in a run where no step fails, the Builder is invoked exactly once for
\* each requested version and each of tpu, gpu, in loop order, with the seed
\* file, host requirements file, output file and constraints file of that key.
C8_BuilderOncePerKey ==
  (pc = "done" /\ exit_code = <<0>> /\ faults = {})
    => /\ Len(BuilderCalls) = 2 * Len(argv.python_versions)
       /\ \A i \in 1..Len(argv.python_versions) :
            /\ BuilderCalls[2 * i - 1] = ExpectedBuilderCall(argv.python_versions[i], "tpu")
            /\ BuilderCalls[2 * i] = ExpectedBuilderCall(argv.python_versions[i], "gpu")
       /\ \A i \in 1..Len(argv.python_versions) : \A m \in {"tpu", "gpu"} :
            Cardinality({k \in 1..Len(BuilderCalls) :
                           BuilderCalls[k] = ExpectedBuilderCall(argv.python_versions[i], m)}) = 1

C8_Witness ==
  /\ pc = "done"
  /\ exit_code = <<0>>
  /\ faults = {}
  /\ argv.python_versions = <<V3_12, V3_11>>
  /\ Len(BuilderCalls) = 4

----------------------------------------------------------------------------
(* C9 *)

\* the download of the host manifest the claim names
ExpectedHostDownload ==
  <<"download_remote_file",
    "https://raw.githubusercontent.com/AI-Hypercomputer/maxtext/"
      \o Join(argv.maxtext_github_commit) \o "/requirements.txt">>

\* the download_remote_file calls main itself makes (the seed manifest is
\* downloaded inside prepare_jax_seed.run)
HostDownloads == Calls("download_remote_file")

HostPatches == Calls("fix_maxtext_requirements")

\* C9 as stated: in any run (of an accepted command line with supported
\* versions) the host manifest is downloaded exactly once and patched exactly
\* once, the patch after the download.
C9_DownloadedAndPatchedInAnyRun ==
  (/\ pc = "done"
   /\ argv.ok
   /\ Range(argv.python_versions) \subseteq SUPPORTED_PYTHON_VERSIONS)
    => /\ Cardinality(HostDownloads) = 1
       /\ Cardinality(HostPatches) = 1
       /\ \A d \in HostDownloads : \A h \in HostPatches : d < h

\* C9, amended: no run downloads or patches the host manifest more than once
\* or patches it without having downloaded it; and in any run that reaches
\* the loop over versions it has been downloaded exactly once, from
\* https://raw.githubusercontent.com/AI-Hypercomputer/maxtext/<commit>/requirements.txt,
\* and patched exactly once, the patch after the download and both before the
\* first iteration step.
C9_OnceBeforeTheLoop ==
  /\ Cardinality(HostDownloads) <= 1
  /\ Cardinality(HostPatches) <= 1
  /\ \A h \in HostPatches : \E d \in HostDownloads : d < h
  /\ \A d \in HostDownloads : log[d] = ExpectedHostDownload
  /\ \A h \in HostPatches : log[h] = <<"fix_maxtext_requirements", "requirements.txt">>
  /\ (IterationSteps # {} \/ pc \in {"next_version", "cleanup_iteration", "generate_pyproject",
                                     "prepare_seed", "build", "stage"})
       => /\ Cardinality(HostDownloads) = 1
          /\ Cardinality(HostPatches) = 1
          /\ \A k \in IterationSteps : \A h \in HostPatches : h < k

\* a run for a given commit that went through all four iterations
C9_Witness ==
  /\ pc = "done"
  /\ exit_code = <<0>>
  /\ argv.maxtext_github_commit = COMMIT_SHA
  /\ Cardinality(Calls("generate_pyproject_toml")) = 4
  /\ Cardinality(HostDownloads) = 1
  /\ Cardinality(HostPatches) = 1

----------------------------------------------------------------------------
(* C10 *)

\* which step of the Builder a trace entry is
Phase(cmd) ==
  IF cmd = <<"os.remove", "uv.lock">> THEN "remove uv.lock"
  ELSE IF cmd[1] = "python" THEN "lower-bound rewrite"
  ELSE IF cmd[2] = "add" /\ "--no-build" \in Range(cmd) THEN "add seed at highest"
  ELSE IF cmd[2] = "add" /\ "--resolution=highest" \in Range(cmd) THEN "add host at highest"
  ELSE IF cmd[2] = "remove" THEN "remove constraint package"
  ELSE IF cmd[2] = "export" /\ "--resolution=highest" \in Range(cmd) THEN "export at highest"
  ELSE IF cmd[2] = "lock" /\ "--resolution=lowest" \in Range(cmd) THEN "lock at lowest"
  ELSE IF cmd[2] = "export" /\ "--resolution=lowest" \in Range(cmd) THEN "export at lowest"
  ELSE "other"

\* the fixed order, with k constraint packages to remove
StepOrder(k) ==
  <<"remove uv.lock", "add seed at highest">>
  \o [i \in 1..k |-> "remove constraint package"]
  \o <<"add host at highest", "export at highest", "lower-bound rewrite",
       "remove uv.lock", "lock at lowest", "export at lowest">>

\* C10: the steps a Builder call has run are an initial part of the fixed
\* order; only the last step run can have exited non-zero, in which case the
\* Builder returns 1; it returns 0 only after the whole sequence.
C10_StepsInOrderUntilFirstFailure ==
  LET t == last_build.trace
      phases == [i \in 1..Len(t) |-> Phase(t[i].cmd)]
      k == Cardinality({i \in 1..Len(t) : phases[i] = "remove constraint package"})
  IN t # <<>>
       => /\ Len(t) <= Len(StepOrder(k))
          /\ phases = SubSeq(StepOrder(k), 1, Len(t))
          /\ \A i \in 1..(Len(t) - 1) : t[i].rc = 0
          /\ last_build.ret = (IF t[Len(t)].rc # 0 THEN 1 ELSE 0)
          /\ last_build.ret = 0 => Len(t) = Len(StepOrder(k))

\* a Builder call whose lower-bound rewrite exited non-zero
C10_Witness ==
  /\ last_build.trace # <<>>
  /\ last_build.ret = 1
  /\ Phase(Last(last_build.trace).cmd) = "lower-bound rewrite"
  /\ Last(last_build.trace).rc # 0

----------------------------------------------------------------------------
(* C11 *)

\* where the output lock file of a key is staged
StagedOutputLock(version, machine) ==
  "maxtext/seed_env_files/py" \o Sanitized(version) \o "/" \o machine
    \o "/maxtext_requirements_lock_" \o machine \o "_" \o Sanitized(version) \o ".txt"

\* C11: every output lock file in a staged output directory was written by
\* the export at lowest resolution, never by the intermediate export at
\* highest resolution.
C11_StagedLockIsLowestExport ==
  \A version \in {V3_11, V3_12} : \A machine \in {"tpu", "gpu"} :
    StagedOutputLock(version, machine) \in DOMAIN fs
      => fs[StagedOutputLock(version, machine)] = <<"--resolution=lowest">>

----------------------------------------------------------------------------
(* C12 *)

\* how many 'uv remove' calls the Builder call just made issued for a package
RemoveCalls(package) ==
  Cardinality({i \in 1..Len(last_build.trace) :
                 last_build.trace[i].cmd = <<"uv", "remove", "--managed-python", "--no-sync",
                                             "--resolution=highest", package>>})

\* C12: with constraints_gpu_only.txt listing torch and torchvision, the
\* driver's gpu iteration issues no 'remove' call for the two packages and
\* its tpu iteration issues one 'remove' call for each of them.
C12_GpuPackagesRemovedOnlyForTpu ==
  (pc = "stage" /\ last_build.ret = 0)
    => IF machine_type = "gpu"
       THEN RemoveCalls("torch") = 0 /\ RemoveCalls("torchvision") = 0
       ELSE RemoveCalls("torch") = 1 /\ RemoveCalls("torchvision") = 1

----------------------------------------------------------------------------
(* C13 *)

\* C13: at the moment an iteration calls the Initializer, the working
\* directory holds no uv.lock, no pyproject.toml and no output lock file of
\* that iteration's key, whatever earlier iterations or an earlier run left.
C13_CleanSlateAtInitializer ==
  pc = "generate_pyproject"
    => /\ "uv.lock" \notin DOMAIN fs
       /\ "pyproject.toml" \notin DOMAIN fs
       /\ ("maxtext_requirements_lock_" \o machine_type \o "_" \o Sanitized(python_version)
             \o ".txt") \notin DOMAIN fs

\* the gpu iteration of a second run is about to call the Initializer after
\* the tpu iteration failed to stage (its artifacts stayed in the working
\* directory), in a directory that still holds the earlier run's outputs
C13_Witness ==
  /\ pc = "generate_pyproject"
  /\ machine_type = "gpu"
  /\ "staging" \in faults
  /\ "maxtext/seed_env_files/py3_11/tpu/uv.lock" \in DOMAIN fs
  /\ fs["maxtext/seed_env_files/py3_11/tpu/uv.lock"] = <<"stale">>

----------------------------------------------------------------------------
(* C14 *)

\* C14: when the host commit argument is exactly 'main', the Commit Validator
\* is never called for the host repository and the host manifest is asked for
\* at the URL built from the literal 'main'.
C14_MainSkipsValidation ==
  (argv.ok /\ argv.maxtext_github_commit = <<"m", "a", "i", "n">>)
    => /\ \A i \in Calls("is_valid_commit") : log[i][3] # "AI-Hypercomputer/maxtext"
       /\ \A i \in Calls("download_remote_file") :
            log[i] = <<"download_remote_file",
                       "https://raw.githubusercontent.com/AI-Hypercomputer/maxtext/main/requirements.txt">>
       /\ pc \notin {"parse_args", "check_versions", "validate_commit", "done"}
            => Calls("download_remote_file") # {} \/ pc = "download_host"

\* a finished run for 'main' that downloaded the manifest and ran the loop
C14_Witness ==
  /\ argv.ok
  /\ argv.maxtext_github_commit = <<"m", "a", "i", "n">>
  /\ pc = "done"
  /\ exit_code = <<0>>
  /\ Calls("download_remote_file") # {}
  /\ Calls("is_valid_commit") = {}

----------------------------------------------------------------------------
(* C15 *)

\* the command line asks for a version outside {3.11, 3.12}
AsksUnsupportedVersion ==
  \E i \in 1..Len(argv.python_versions) :
    argv.python_versions[i] \notin {<<"3", ".", "1", "1">>, <<"3", ".", "1", "2">>}

\* C15: when the command line is rejected, for a missing required option
\* (exit code 2) or for a version outside {3.11, 3.12} (return 1), nothing has
\* been validated, downloaded, patched, removed, initialized, fetched, built,
\* created or moved.
C15_RejectedCommandLineDoesNothing ==
  /\ ~argv.ok => (pc = "done" => exit_code = <<2>>)
  /\ (argv.ok /\ AsksUnsupportedVersion) => (pc = "done" => exit_code = <<1>>)
  /\ (~argv.ok \/ AsksUnsupportedVersion)
       => /\ log = <<>>
          /\ fs = FreshDirectory
          /\ dirs = {}
          /\ pc \in {"parse_args", "check_versions", "done"}

\* a run rejected for its second version, the first being supported
C15_Witness ==
  /\ pc = "done"
  /\ exit_code = <<1>>
  /\ Len(argv.python_versions) = 2
  /\ argv.python_versions[1] = <<"3", ".", "1", "1">>
  /\ argv.python_versions[2] \notin SUPPORTED_PYTHON_VERSIONS
  /\ log = <<>>

----------------------------------------------------------------------------
(* C16 *)

\* C16: when a requested version is not of the form X.Y, only that version's
\* iterations are skipped: the Builder is never invoked for it, nothing is
\* staged for it, and the iterations of the other requested versions run.
C16_MalformedVersionSkipsOnlyItself ==
  (/\ pc = "done"
   /\ argv.ok
   /\ argv.maxtext_github_commit = <<"m", "a", "i", "n">>
   /\ faults = {}
   /\ \E i \in 1..Len(argv.python_versions) : argv.python_versions[i] = <<"3">>)
    => /\ \A k \in Calls("build_seed_env") : log[k][2] # "requirements_lock_3.txt"
       /\ "maxtext/seed_env_files/py3/tpu" \notin dirs
       /\ "maxtext/seed_env_files/py3/gpu" \notin dirs
       /\ \A j \in 1..Len(argv.python_versions) :
            argv.python_versions[j] \in {<<"3", ".", "1", "1">>, <<"3", ".", "1", "2">>}
              => \E k \in Calls("build_seed_env") :
                   log[k][2] = "requirements_lock_" \o Sanitized(argv.python_versions[j]) \o ".txt"

----------------------------------------------------------------------------
(* C17 *)

DecimalDigits == {"0", "1", "2", "3", "4", "5", "6", "7", "8", "9"}

\* one or more digits, a dot, one or more digits
IsMajorMinor(s) ==
  \E k \in 1..Len(s) :
    /\ s[k] = "."
    /\ k > 1
    /\ k < Len(s)
    /\ \A i \in 1..(k - 1) : s[i] \in DecimalDigits
    /\ \A i \in (k + 1)..Len(s) : s[i] \in DecimalDigits

\* what ^\d+\.\d+$ matches with re.match: X.Y, or X.Y and a final newline
MatchedByPattern(s) ==
  \/ IsMajorMinor(s)
  \/ (s # <<>> /\ s[Len(s)] = "\n" /\ IsMajorMinor(SubSeq(s, 1, Len(s) - 1)))

----------------------------------------------------------------------------
(* C18 *)

\* C18: for a reference that is not exactly 40 hexadecimal characters
\* is_valid_commit returns false without a network call; it returns true only
\* for 40 hexadecimal characters for which the commits API answers with a sha.
C18_ValidatorNeedsFortyHexDigits ==
  (pc = "returned" /\ argv.function = "is_valid_commit")
    => LET r == log[1]
           hex40 == /\ Len(argv.input_ref) = 40
                    /\ \A i \in 1..Len(argv.input_ref) :
                         argv.input_ref[i] \in DecimalDigits \cup {"a", "b", "c", "d", "e", "f",
                                                                  "A", "B", "C", "D", "E", "F"}
       IN /\ ~hex40 => (r.exc = "none" /\ r.ret = FALSE /\ ~r.net)
          /\ (r.exc = "none" /\ r.ret) => (hex40 /\ r.response = "sha")

\* ---------------------------------------------------------------------------
\* C19
\* ---------------------------------------------------------------------------

\* what the rule gives for each line tried, worked out by hand: lines with a
\* '#', or with neither '==' nor '@', give nothing
C19_ConvertedLine(line) ==
  CASE line = <<"p", "k", "g", "=", "=", "1", ".", "2", ".", "3">>
         -> <<<<"p", "k", "g", ">", "=", "1", ".", "2", ".", "3">>>>
    [] line = <<"p", "k", "g", " ", "@", " ", "u">>
         -> <<<<"p", "k", "g", " ", "@", " ", "u">>>>
    [] line = <<" ", " ", "b", "=", "=", "2", " ", " ">>
         -> <<<<"b", ">", "=", "2">>>>
    [] line = <<"x", "=", "=", "=", "1">>
         -> <<<<"x", ">", "=", "=", "1">>>>
    [] line = <<"a", "=", "=", "1", ",", "b", "=", "=", "2">>
         -> <<<<"a", ">", "=", "1", ",", "b", ">", "=", "2">>>>
    [] line = <<"c", " ", "@", " ", "u", "=", "=", "1">>
         -> <<<<"c", " ", "@", " ", "u", ">", "=", "1">>>>
    [] OTHER -> <<>>

RECURSIVE C19_Converted(_)
C19_Converted(lines) ==
  IF lines = <<>> THEN <<>>
  ELSE C19_ConvertedLine(Head(lines)) \o C19_Converted(Tail(lines))

\* C19: for every lock file the converted dependency list is, in file order,
\* the stripped lines that hold no '#' and hold '==' or '@', every '=='
\* replaced by '>=': 'pkg==1.2.3' alone gives ['pkg>=1.2.3'], 'pkg>=1.0' is
\* left out, a line with '@' and no '==' is kept as it is.
C19_ConvertedListFollowsRule ==
  (pc = "returned" /\ argv.function = "convert_deps_to_lower_bound")
    => log[1] = C19_Converted(fs[LOCK_FILE])

\* a file of 'pkg>=1.0' and 'pkg==1.2.3' has been converted to ['pkg>=1.2.3']
C19_Witness ==
  /\ pc = "returned"
  /\ argv.function = "convert_deps_to_lower_bound"
  /\ fs[LOCK_FILE] = <<<<"p", "k", "g", ">", "=", "1", ".", "0">>,
                       <<"p", "k", "g", "=", "=", "1", ".", "2", ".", "3">>>>
  /\ log[1] = <<<<"p", "k", "g", ">", "=", "1", ".", "2", ".", "3">>>>

\* ---------------------------------------------------------------------------
\* C20
\* ---------------------------------------------------------------------------

\* C20: when the project descriptor holds no 'dependencies = [...]' array that
\* the pattern matches, the lower-bound rewrite ends with an error rather than
\* completing silently.
C20_AbsentArrayIsAnError ==
  ( /\ pc = "returned"
    /\ argv.function = "lock_to_lower_bound_project"
    /\ log[1].found \in {<<DESCRIPTOR_WITHOUT_ARRAY>>, <<DESCRIPTOR_OTHER_ARRAY>>,
                          <<DESCRIPTOR_REWRITTEN>>} )
    => log[1].exc # "none"

\* ---------------------------------------------------------------------------
\* C21
\* ---------------------------------------------------------------------------

C22_ParseAndNetworkErrorsReturnFalse ==
  (pc = "returned" /\ argv.function = "is_valid_commit" /\ IsHex40(argv.input_ref))
    => /\ log[1].response \in {"net_error", "bad_json"}
            => (log[1].exc = "none" /\ log[1].ret = FALSE)
       /\ log[1].exc # "none" => log[1].response = "rate_limit"

\* ---------------------------------------------------------------------------
\* C23
\* ---------------------------------------------------------------------------

\* C23: constraint removal is best-effort per package: when the resolver's
\* 'remove' of one listed package exits non-zero, the packages listed after it
\* are still removed and the sequence goes on to add the host manifest.
C23_RemovalIsBestEffort ==
  \A i \in 1..Len(last_build.trace) :
    (last_build.trace[i].cmd[2] = "remove" /\ last_build.trace[i].rc # 0)
      => LET constraints_file == Last(BuilderCalls[Len(BuilderCalls)])
             listed == deps_to_remove(FreshDirectory, constraints_file)
             issued == {last_build.trace[j].cmd : j \in 1..Len(last_build.trace)}
         IN /\ \A k \in 1..Len(listed) : uv_remove(listed[k]) \in issued
            /\ uv_add(REQUIREMENTS_FILE_NAME, <<>>) \in issued

\* ---------------------------------------------------------------------------
\* C24
\* ---------------------------------------------------------------------------

\* C24: when one of uv.lock, pyproject.toml and the output lock file is
\* missing as staging begins, none of the others is moved: no staged directory
\* ever holds only some of an iteration's three artifacts.
C24_StagedAllOrNothing ==
  \A version \in {"3_11", "3_12"}, machine \in {"tpu", "gpu"} :
    LET staged == StagedFor(version, machine) \cap DOMAIN fs
    IN staged = {} \/ staged = StagedFor(version, machine)

\* ---------------------------------------------------------------------------
\* C25
\* ---------------------------------------------------------------------------

\* the seed fetches of the run: prepare_jax_seed.run(reference, version)
SeedFetches == {<<log[i][2], log[i][3]>> : i \in Calls("prepare_jax_seed.run")}

\* C25: every iteration of a version other than '3.10' fetches the seed with
\* the caller's JAX reference and its own version; an iteration for '3.10'
\* fetches it with 'jax-v0.6.2' whatever the caller gave, and goes on to the
\* Builder once the seed is patched.  So a run asked for 3.10 whose host
\* manifest was prepared, and in which nothing failed, has fetched the seed
\* for 3.10 with 'jax-v0.6.2'.
C25_SeedReferenceSelection ==
  /\ \A fetch \in SeedFetches :
       fetch[2] # "3.10" => fetch[1] = Join(argv.jax_github_commit_or_version)
  /\ ( /\ pc = "done"
       /\ argv.ok
       /\ V3_10 \in Range(argv.python_versions)
       /\ Range(argv.python_versions) \subseteq {V3_10, V3_11, V3_12}
       /\ argv.maxtext_github_commit = MAIN
       /\ faults = {} )
      => <<"jax-v0.6.2", "3.10">> \in SeedFetches

\* ---------------------------------------------------------------------------
\* C26
\* ---------------------------------------------------------------------------

\* some line of the lock file holds three '=' in a row
C26_HoldsTripleEquals ==
  \E i \in 1..Len(fs[LOCK_FILE]) : contains(fs[LOCK_FILE][i], <<"=", "=", "=">>)

\* every line of the lock file holds neither '==' nor '@'
C26_NothingPinned ==
  \A i \in 1..Len(fs[LOCK_FILE]) :
    /\ ~contains(fs[LOCK_FILE][i], <<"=", "=">>)
    /\ ~contains(fs[LOCK_FILE][i], <<"@">>)

\* C26 as stated: converting an already converted dependency list changes
\* nothing, convert(convert(d)) = convert(d), for every lock file; and a lock
\* file whose entries hold no '==' and no '@' converts to the empty list.
C26_ConvertIsIdempotent ==
  /\ (argv.function = "convert_deps_to_lower_bound" /\ Len(log) = 2) => log[2] = log[1]
  /\ (argv.function = "convert_deps_to_lower_bound" /\ pc = "returned" /\ C26_NothingPinned)
       => log[1] = <<>>

\* C26, amended: the same, for lock files none of whose lines holds '==='.
C26_ConvertIsIdempotentWithoutTripleEquals ==
  /\ (argv.function = "convert_deps_to_lower_bound" /\ Len(log) = 2 /\ ~C26_HoldsTripleEquals)
       => log[2] = log[1]
  /\ (argv.function = "convert_deps_to_lower_bound" /\ pc = "returned" /\ C26_NothingPinned)
       => log[1] = <<>>

\* a pin and a source reference, converted once and then once more
C26_Witness ==
  /\ argv.function = "convert_deps_to_lower_bound"
  /\ fs[LOCK_FILE] = <<<<"p", "k", "g", "=", "=", "1", ".", "2", ".", "3">>,
                       <<"p", "k", "g", " ", "@", " ", "u">>>>
  /\ Len(log) = 2
  /\ log[1] = <<<<"p", "k", "g", ">", "=", "1", ".", "2", ".", "3">>,
                <<"p", "k", "g", " ", "@", " ", "u">>>>
  /\ log[2] = log[1]

\* ---------------------------------------------------------------------------
\* C27
\* ---------------------------------------------------------------------------

\* what the four substitutions make of each line tried, worked out by hand;
\* a line holding none of the four substrings stays as it is
C27_PatchedLine(line) ==
  CASE line = <<"p", "r", "o", "t", "o", "b", "u", "f", "=", "=", "3", ".", "2", "0", ".", "3">>
         -> <<"p", "r", "o", "t", "o", "b", "u", "f">>
    [] line = <<"s", "e", "n", "t", "e", "n", "c", "e", "p", "i", "e", "c", "e", "=", "=", "0", ".", "1", ".", "9", "7">>
         -> <<"s", "e", "n", "t", "e", "n", "c", "e", "p", "i", "e", "c", "e", ">", "=", "0", ".", "1", ".", "9", "7">>
    [] line = <<"j", " ", "@", " ", "g", "/", "J", "e", "t", "S", "t", "r", "e", "a", "m", ".", "g", "i", "t">>
         -> <<"j", " ", "@", " ", "g", "/", "J", "e", "t", "S", "t", "r", "e", "a", "m", ".", "g", "i", "t", "@", "2", "6", "1", "f", "2", "5", "0", "0", "7", "e", "4", "d", "1", "2", "b", "b", "5", "7", "c", "f", "8", "d", "5", "d", "6", "1", "e", "2", "9", "1", "b", "a", "8", "f", "1", "8", "4", "3", "0", "f">>
    [] line = <<"l", " ", "@", " ", "g", "/", "l", "o", "g", "g", "i", "n", "g", ".", "g", "i", "t">>
         -> <<"l", " ", "@", " ", "g", "/", "l", "o", "g", "g", "i", "n", "g", ".", "g", "i", "t", "@", "4", "4", "b", "4", "8", "1", "0", "e", "6", "5", "e", "8", "c", "0", "a", "7", "d", "9", "e", "4", "e", "2", "0", "7", "c", "6", "0", "e", "5", "1", "d", "9", "4", "5", "8", "a", "3", "f", "b", "8">>
    [] line = <<"p", "r", "o", "t", "o", "b", "u", "f", "=", "=", "3", ".", "2", "0", ".", "3", ";", "p", "r", "o", "t", "o", "b", "u", "f", "=", "=", "3", ".", "2", "0", ".", "3", "0">>
         -> <<"p", "r", "o", "t", "o", "b", "u", "f", ";", "p", "r", "o", "t", "o", "b", "u", "f", "0">>
    [] line = <<"g", "/", "l", "o", "g", "g", "i", "n", "g", ".", "g", "i", "t", " ", "g", "/", "J", "e", "t", "S", "t", "r", "e", "a", "m", ".", "g", "i", "t">>
         -> <<"g", "/", "l", "o", "g", "g", "i", "n", "g", ".", "g", "i", "t", "@", "4", "4", "b", "4", "8", "1", "0", "e", "6", "5", "e", "8", "c", "0", "a", "7", "d", "9", "e", "4", "e", "2", "0", "7", "c", "6", "0", "e", "5", "1", "d", "9", "4", "5", "8", "a", "3", "f", "b", "8", " ", "g", "/", "J", "e", "t", "S", "t", "r", "e", "a", "m", ".", "g", "i", "t", "@", "2", "6", "1", "f", "2", "5", "0", "0", "7", "e", "4", "d", "1", "2", "b", "b", "5", "7", "c", "f", "8", "d", "5", "d", "6", "1", "e", "2", "9", "1", "b", "a", "8", "f", "1", "8", "4", "3", "0", "f">>
    [] line = <<"j", " ", "@", " ", "g", "/", "J", "e", "t", "S", "t", "r", "e", "a", "m", ".", "g", "i", "t", "@", "v", "1">>
         -> <<"j", " ", "@", " ", "g", "/", "J", "e", "t", "S", "t", "r", "e", "a", "m", ".", "g", "i", "t", "@", "2", "6", "1", "f", "2", "5", "0", "0", "7", "e", "4", "d", "1", "2", "b", "b", "5", "7", "c", "f", "8", "d", "5", "d", "6", "1", "e", "2", "9", "1", "b", "a", "8", "f", "1", "8", "4", "3", "0", "f", "@", "v", "1">>
    [] OTHER -> line

\* the first call found a manifest and rewrote it without an error
C27_Rewritten ==
  /\ argv.function = "fix_maxtext_requirements"
  /\ Len(log) = 1
  /\ log[1].outcome = "ok"
  /\ log[1].found # <<>>

\* some line of the manifest found holds a carriage return
C27_HoldsCarriageReturn ==
  \E i \in 1..Len(log[1].found[1]) : "\r" \in Range(log[1].found[1][i])

\* C27 as stated: fix_maxtext_requirements rewrites every line by the four
\* substitutions in mapping order, every occurrence in the line; a line with
\* none of the four substrings is left unchanged byte for byte, and the
\* number and order of lines is preserved.
C27_EveryLineSubstituted ==
  C27_Rewritten
    => fs[REQUIREMENTS_FILE_NAME]
         = [i \in 1..Len(log[1].found[1]) |-> C27_PatchedLine(log[1].found[1][i])]

\* C27, amended: the same, for manifests that hold no carriage return.
C27_EveryLineSubstitutedWithoutCarriageReturn ==
  (C27_Rewritten /\ ~C27_HoldsCarriageReturn)
    => fs[REQUIREMENTS_FILE_NAME]
         = [i \in 1..Len(log[1].found[1]) |-> C27_PatchedLine(log[1].found[1][i])]

\* a line with two occurrences of the first substring, and a line with none
C27_Witness ==
  /\ C27_Rewritten
  /\ log[1].found[1] = <<<<"p", "r", "o", "t", "o", "b", "u", "f", "=", "=", "3", ".", "2", "0", ".", "3", ";", "p", "r", "o", "t", "o", "b", "u", "f", "=", "=", "3", ".", "2", "0", ".", "3", "0">>,
                         <<"j", "a", "x">>>>
  /\ fs[REQUIREMENTS_FILE_NAME] = <<<<"p", "r", "o", "t", "o", "b", "u", "f", ";", "p", "r", "o", "t", "o", "b", "u", "f", "0">>,
                                    <<"j", "a", "x">>>>

\* ---------------------------------------------------------------------------
\* C30
\* ---------------------------------------------------------------------------

\* C30: the fixed substitution is idempotent: fix_maxtext_requirements applied
\* to a manifest it has already patched, or to a manifest whose JetStream or
\* logging source link already carries an '@<commit>' suffix, leaves the file
\* unchanged.
C30_FixIsIdempotent ==
  /\ ( /\ argv.function = "fix_maxtext_requirements"
       /\ Len(log) = 2
       /\ log[1].outcome = "ok" /\ log[2].outcome = "ok"
       /\ log[2].found # <<>> )
      => fs[REQUIREMENTS_FILE_NAME] = log[2].found[1]
  /\ ( /\ argv.function = "fix_maxtext_requirements"
       /\ Len(log) = 1
       /\ log[1].outcome = "ok"
       /\ log[1].found = <<<<<<"j", " ", "@", " ", "g", "/", "J", "e", "t", "S", "t", "r", "e", "a", "m", ".", "g", "i", "t", "@", "v", "1">>>>>> )
      => fs[REQUIREMENTS_FILE_NAME] = log[1].found[1]

\* ---------------------------------------------------------------------------
\* C28
\* ---------------------------------------------------------------------------

\* the position at which the list names the file first
C28_FirstListedAt(name) ==
  CHOOSE i \in 1..Len(argv.files_to_clean_per_iteration) :
    /\ argv.files_to_clean_per_iteration[i] = name
    /\ \A j \in 1..(i - 1) : argv.files_to_clean_per_iteration[j] # name

\* C28: _cleanup_files removes exactly the listed files that exist, in list
\* order, each once, and neither removes nor changes a file outside the list;
\* a listed file that does not exist causes no removal attempt.
C28_RemovesExactlyTheListedFilesThatExist ==
  (pc = "returned" /\ argv.function = "_cleanup_files")
    => LET found == log[1].found
           removed == log[1].removed
           listed == Range(argv.files_to_clean_per_iteration)
       IN /\ Range(removed) = listed \cap DOMAIN found
          /\ \A i, j \in 1..Len(removed) :
               i < j => C28_FirstListedAt(removed[i]) < C28_FirstListedAt(removed[j])
          /\ DOMAIN fs = DOMAIN found \ listed
          /\ \A p \in DOMAIN fs : fs[p] = found[p]

\* of uv.lock (missing), pyproject.toml and requirements.txt, the two that
\* exist were removed in list order, and the unlisted file stayed
C28_Witness ==
  /\ pc = "returned"
  /\ argv.function = "_cleanup_files"
  /\ argv.files_to_clean_per_iteration = <<UV_LOCK, PYPROJECT_TOML, REQUIREMENTS_FILE_NAME>>
  /\ DOMAIN log[1].found = {PYPROJECT_TOML, REQUIREMENTS_FILE_NAME, UNLISTED_FILE}
  /\ log[1].removed = <<PYPROJECT_TOML, REQUIREMENTS_FILE_NAME>>
  /\ DOMAIN fs = {UNLISTED_FILE}

\* ---------------------------------------------------------------------------
\* C29
\* ---------------------------------------------------------------------------

\* C29: staging is repeatable: when the output folder of a key already holds
\* artifacts of the same names, staging after a successful build replaces
\* them: the folder then holds the three artifacts just built and none of
\* them is left in the working directory.
C29_StagingReplacesEarlierArtifacts ==
  [][(pc = "stage" /\ last_build.ret = 0)
       => LET folder == output_folder(machine_type, python_version)
              files == files_to_move(machine_type, python_version)
          IN \A k \in 1..Len(files) :
               /\ ~exists(fs', files[k])
               /\ exists(fs', path_join(<<folder, files[k]>>))
               /\ fs'[path_join(<<folder, files[k]>>)] = fs[files[k]]]_vars

====
